---- MODULE Spec2Model ----
(***************************************************************************)
(* api-toolkit: a command-line HTTP client.                                *)
(*                                                                         *)
(*   commands/request.py    get/post/put/delete commands, _parse_headers   *)
(*   core/http_client.py    HttpClient.request (one httpx call, timed)     *)
(*   models/request_models.py  HttpRequest / HttpResponse                  *)
(*   display/formatters.py  ResponseFormatter (summary, headers, body)     *)
(*                                                                         *)
(* A Python str is a sequence of characters; a character is a one-letter   *)
(* string, or "U+XXXX" for a code point outside ASCII.  A dict is the      *)
(* sequence of its <<key, value>> items in insertion order.  The console   *)
(* is the sequence of the things printed to it.                            *)
(***************************************************************************)
EXTENDS Integers, Sequences, FiniteSets, TLC

VARIABLES
    pc,          \* position of the invocation
    cmd,         \* the command or entry point that was invoked
    header,      \* the --header values as supplied (tuple of str)
    no_headers,  \* the --no-headers flag
    method,      \* the method argument of HttpClient.request, as supplied
    request,     \* the HttpRequest built by HttpClient.request (Optional)
    sent,        \* the calls made to the transport (httpx client.request)
    outcome,     \* what the transport call did: "none", "response", "timeout", ...
    response,    \* the HttpResponse (Optional)
    exc,         \* the exception that left the invocation, "" if none
    out          \* the console: the sequence of things printed

vars == <<pc, cmd, header, no_headers, method, request, sent, outcome, response, exc, out>>

----------------------------------------------------------------------------
(* Bounds of the model *)

\* most --header options on one command line
MaxHeaders == 2
\* most extra (non content-type) headers of a rendered response
MaxExtra == 2
\* slack around a truncation threshold: body lengths threshold-Slack .. threshold+Slack
Slack == 1

----------------------------------------------------------------------------
(* Characters and strings *)

LowerChars == <<"a", "b", "c", "d", "e", "f", "g", "h", "i", "j", "k", "l", "m", "n", "o", "p", "q", "r", "s", "t", "u", "v", "w", "x", "y", "z">>
UpperChars == <<"A", "B", "C", "D", "E", "F", "G", "H", "I", "J", "K", "L", "M", "N", "O", "P", "Q", "R", "S", "T", "U", "V", "W", "X", "Y", "Z">>

\* str.upper() / str.lower() on one (ASCII) character
UpperChar(c) ==
    IF \E i \in 1..26 : LowerChars[i] = c
    THEN UpperChars[CHOOSE i \in 1..26 : LowerChars[i] = c]
    ELSE c
LowerChar(c) ==
    IF \E i \in 1..26 : UpperChars[i] = c
    THEN LowerChars[CHOOSE i \in 1..26 : UpperChars[i] = c]
    ELSE c

StrUpper(s) == [i \in 1..Len(s) |-> UpperChar(s[i])]
StrLower(s) == [i \in 1..Len(s) |-> LowerChar(s[i])]

\* Python's  p in s  for strings
Contains(s, p) ==
    \E i \in 0..(Len(s) - Len(p)) : SubSeq(s, i + 1, i + Len(p)) = p

\* s.startswith(p, i - 1)
StartsWith(s, i, p) == i + Len(p) - 1 <= Len(s) /\ SubSeq(s, i, i + Len(p) - 1) = p

\* s[:n]
Prefix(s, n) == SubSeq(s, 1, IF Len(s) < n THEN Len(s) ELSE n)

IsSpace(c) == c \in {" ", "\t", "\n", "\r"}

\* str.strip()
StrStrip(s) ==
    LET keep == {i \in 1..Len(s) : ~IsSpace(s[i])}
    IN  IF keep = {} THEN <<>>
        ELSE SubSeq(s, CHOOSE i \in keep : \A j \in keep : i <= j,
                       CHOOSE i \in keep : \A j \in keep : j <= i)

\* index of the first occurrence of character c in s (s.split(c, 1) cuts there)
FirstIndex(s, c) == CHOOSE i \in 1..Len(s) : s[i] = c /\ \A j \in 1..(i - 1) : s[j] # c

\* decimal digits of a natural number
RECURSIVE Digits(_)
Digits(n) ==
    LET d == <<"0", "1", "2", "3", "4", "5", "6", "7", "8", "9">>
    IN  IF n < 10 THEN <<d[n + 1]>> ELSE Digits(n \div 10) \o <<d[(n % 10) + 1]>>

\* str(n) for an int
IntStr(n) == IF n < 0 THEN <<"-">> \o Digits(-n) ELSE Digits(n)

\* dict: d[k] = v  (an existing key keeps its place)
DictSet(d, k, v) ==
    IF \E i \in 1..Len(d) : d[i][1] = k
    THEN [i \in 1..Len(d) |-> IF d[i][1] = k THEN <<k, v>> ELSE d[i]]
    ELSE Append(d, <<k, v>>)

\* dict.get(k, default)
DictGet(d, k, default) ==
    IF \E i \in 1..Len(d) : d[i][1] = k
    THEN d[CHOOSE i \in 1..Len(d) : d[i][1] = k][2]
    ELSE default

\* Optional[...]; NoneInt is None where an int is expected
None == [some |-> FALSE, v |-> <<>>]
NoneInt == [some |-> FALSE, v |-> 0]
Some(x) == [some |-> TRUE, v |-> x]

\* one thing printed to the console
Ev(kind, text, n, rows) ==
    [kind |-> kind, text |-> text, n |-> n, rows |-> rows, style |-> ""]

----------------------------------------------------------------------------
(* models/request_models.py *)

valid_methods ==
    << <<"G", "E", "T">>, <<"P", "O", "S", "T">>, <<"P", "U", "T">>,
       <<"D", "E", "L", "E", "T", "E">>, <<"P", "A", "T", "C", "H">>,
       <<"H", "E", "A", "D">>, <<"O", "P", "T", "I", "O", "N", "S">> >>

InList(x, l) == \E i \in 1..Len(l) : l[i] = x

\* a mutant of PostInit: the supplied spelling is validated after upper-casing
\* but stored as given
PostInitKeepCase(m) ==
    IF InList(StrUpper(m), valid_methods)
    THEN [ok |-> TRUE, method |-> m]
    ELSE [ok |-> FALSE, method |-> StrUpper(m)]

\* HttpRequest.__post_init__: the method is upper-cased, then checked against
\* valid_methods; ok = FALSE is the ValueError
PostInit(m) ==
    LET up == StrUpper(m)
    IN  [ok |-> InList(up, valid_methods), method |-> up]

\* HttpRequest(method, url, headers, body, timeout)
HttpRequest(m, url, headers, body, timeout) ==
    LET p == PostInit(m)
    IN  [ok |-> p.ok,
         req |-> [method |-> p.method, url |-> url, headers |-> headers,
                  body |-> body, timeout |-> timeout]]

\* HttpResponse(status_code, headers, body, elapsed_time, request); the elapsed
\* time is held in microseconds
HttpResponse(status_code, headers, body, elapsed_us, req) ==
    [status_code |-> status_code, headers |-> headers, body |-> body,
     elapsed_us |-> elapsed_us, request |-> req]

----------------------------------------------------------------------------
(* json.loads / json.dumps(indent=2, ensure_ascii=False), as far as the     *)
(* bodies of the model go: null, true, false, integers, strings without     *)
(* escapes, arrays and objects.  A value is a record tagged by t.           *)

\* first index >= i of s that holds no JSON whitespace (Len(s) + 1 if none)
SkipWs(s, i) ==
    LET rest == {j \in i..Len(s) : ~IsSpace(s[j])}
    IN  IF rest = {} THEN (IF i > Len(s) THEN i ELSE Len(s) + 1)
        ELSE CHOOSE j \in rest : \A k \in rest : j <= k

IsDigit(c) == c \in {"0", "1", "2", "3", "4", "5", "6", "7", "8", "9"}
DigitVal(c) == CHOOSE n \in 0..9 : Digits(n) = <<c>>

\* index after the run of digits that starts at i
DigitsEnd(s, i) ==
    LET stop == {j \in i..Len(s) : ~IsDigit(s[j])}
    IN  IF stop = {} THEN Len(s) + 1 ELSE CHOOSE j \in stop : \A k \in stop : j <= k

\* int() of the digits s[i..j-1]
RECURSIVE DigitsVal(_, _, _)
DigitsVal(s, i, j) ==
    IF j <= i THEN 0 ELSE DigitsVal(s, i, j - 1) * 10 + DigitVal(s[j - 1])

JFail == [ok |-> FALSE, v |-> [t |-> "none"], i |-> 0]
JOk(v, i) == [ok |-> TRUE, v |-> v, i |-> i]

\* scanstring: s[i] is the character after the opening quote
ParseString(s, i) ==
    LET q == {j \in i..Len(s) : s[j] = "\""}
    IN  IF q = {} THEN JFail
        ELSE LET e == CHOOSE j \in q : \A k \in q : j <= k
             IN  IF \E j \in i..(e - 1) : s[j] \in {"\n", "\t", "\r", "\\"}
                 THEN JFail
                 ELSE JOk([t |-> "str", s |-> SubSeq(s, i, e - 1)], e + 1)

\* the number pattern  -?(0|[1-9][0-9]*)  at s[i]
ParseNumber(s, i) ==
    LET neg == i <= Len(s) /\ s[i] = "-"
        d   == IF neg THEN i + 1 ELSE i
    IN  IF d > Len(s) \/ ~IsDigit(s[d]) THEN JFail
        ELSE LET e == IF s[d] = "0" THEN d + 1 ELSE DigitsEnd(s, d)
                 n == DigitsVal(s, d, e)
             IN  JOk([t |-> "int", n |-> IF neg THEN 0 - n ELSE n], e)

RECURSIVE ParseValue(_, _), ParseArrayItems(_, _, _), ParseObjectItems(_, _, _)

\* scan_once(s, i)
ParseValue(s, i) ==
    IF i > Len(s) THEN JFail
    ELSE IF s[i] = "\"" THEN ParseString(s, i + 1)
    ELSE IF s[i] = "{" THEN
        LET j == SkipWs(s, i + 1)
        IN  IF j > Len(s) THEN JFail
            ELSE IF s[j] = "}" THEN JOk([t |-> "obj", items |-> <<>>], j + 1)
            ELSE IF s[j] # "\"" THEN JFail
            ELSE ParseObjectItems(s, j, <<>>)
    ELSE IF s[i] = "[" THEN
        LET j == SkipWs(s, i + 1)
        IN  IF j > Len(s) THEN JFail
            ELSE IF s[j] = "]" THEN JOk([t |-> "arr", items |-> <<>>], j + 1)
            ELSE ParseArrayItems(s, j, <<>>)
    ELSE IF StartsWith(s, i, <<"n", "u", "l", "l">>)
        THEN JOk([t |-> "lit", s |-> <<"n", "u", "l", "l">>], i + 4)
    ELSE IF StartsWith(s, i, <<"t", "r", "u", "e">>)
        THEN JOk([t |-> "lit", s |-> <<"t", "r", "u", "e">>], i + 4)
    ELSE IF StartsWith(s, i, <<"f", "a", "l", "s", "e">>)
        THEN JOk([t |-> "lit", s |-> <<"f", "a", "l", "s", "e">>], i + 5)
    ELSE ParseNumber(s, i)

\* JSONArray: s[i] starts the next item, acc holds the items so far
ParseArrayItems(s, i, acc) ==
    LET r == ParseValue(s, i)
    IN  IF ~r.ok THEN JFail
        ELSE LET j == SkipWs(s, r.i)
                 items == Append(acc, r.v)
             IN  IF j > Len(s) THEN JFail
                 ELSE IF s[j] = "]" THEN JOk([t |-> "arr", items |-> items], j + 1)
                 ELSE IF s[j] # "," THEN JFail
                 ELSE ParseArrayItems(s, SkipWs(s, j + 1), items)

\* JSONObject: s[i] is the quote that opens the next key, acc the pairs so far
ParseObjectItems(s, i, acc) ==
    LET k == ParseString(s, i + 1)
    IN  IF ~k.ok THEN JFail
        ELSE LET c == SkipWs(s, k.i)
             IN  IF c > Len(s) \/ s[c] # ":" THEN JFail
                 ELSE LET r == ParseValue(s, SkipWs(s, c + 1))
                      IN  IF ~r.ok THEN JFail
                          ELSE LET j == SkipWs(s, r.i)
                                   items == DictSet(acc, k.v.s, r.v)
                               IN  IF j > Len(s) THEN JFail
                                   ELSE IF s[j] = "}"
                                        THEN JOk([t |-> "obj", items |-> items], j + 1)
                                   ELSE IF s[j] # "," THEN JFail
                                   ELSE LET n == SkipWs(s, j + 1)
                                        IN  IF n > Len(s) \/ s[n] # "\"" THEN JFail
                                            ELSE ParseObjectItems(s, n, items)

\* json.loads(s): ok = FALSE is json.JSONDecodeError
JsonLoads(s) ==
    LET r == ParseValue(s, SkipWs(s, 1))
    IN  IF ~r.ok THEN JFail
        ELSE IF SkipWs(s, r.i) # Len(s) + 1 THEN JFail
        ELSE r

Spaces(n) == [i \in 1..n |-> " "]

RECURSIVE JsonDumps(_, _), DumpItems(_, _, _, _)

\* the items of an array (keyed = FALSE) or object (keyed = TRUE) from index i,
\* each on its own line at the given level
DumpItems(items, i, level, keyed) ==
    IF i > Len(items) THEN <<>>
    ELSE LET one == IF keyed
                    THEN <<"\"">> \o items[i][1] \o <<"\"", ":", " ">>
                         \o JsonDumps(items[i][2], level)
                    ELSE JsonDumps(items[i], level)
         IN  Spaces(2 * level) \o one
             \o (IF i < Len(items) THEN <<",", "\n">> ELSE <<>>)
             \o DumpItems(items, i + 1, level, keyed)

\* json.dumps(v, indent=2, ensure_ascii=False) of a value nested at level
JsonDumps(v, level) ==
    IF v.t = "lit" THEN v.s
    ELSE IF v.t = "int" THEN IntStr(v.n)
    ELSE IF v.t = "str" THEN <<"\"">> \o v.s \o <<"\"">>
    ELSE IF v.t = "arr" THEN
        IF v.items = <<>> THEN <<"[", "]">>
        ELSE <<"[", "\n">> \o DumpItems(v.items, 1, level + 1, FALSE)
             \o <<"\n">> \o Spaces(2 * level) \o <<"]">>
    ELSE
        IF v.items = <<>> THEN <<"{", "}">>
        ELSE <<"{", "\n">> \o DumpItems(v.items, 1, level + 1, TRUE)
             \o <<"\n">> \o Spaces(2 * level) \o <<"}">>

----------------------------------------------------------------------------
(* display/formatters.py *)

\* truncation lengths of _format_body
HtmlLines == 10
XmlChars == 500
PlainChars == 1000

\* s.split("\n")
SplitLines(s) ==
    LET nl == {i \in 1..Len(s) : s[i] = "\n"}
        k  == Cardinality(nl)
        pos(j) == IF j = 0 THEN 0
                  ELSE IF j = k + 1 THEN Len(s) + 1
                  ELSE CHOOSE i \in nl : Cardinality({x \in nl : x <= i}) = j
    IN  [j \in 1..(k + 1) |-> SubSeq(s, pos(j - 1) + 1, pos(j) - 1)]

\* "\n".join(lines)
RECURSIVE JoinLines(_)
JoinLines(lines) ==
    IF lines = <<>> THEN <<>>
    ELSE IF Len(lines) = 1 THEN lines[1]
    ELSE lines[1] \o <<"\n">> \o JoinLines(Tail(lines))

\* _get_status_color
StatusColor(status_code) ==
    IF 200 <= status_code /\ status_code < 300 THEN "green"
    ELSE IF 300 <= status_code /\ status_code < 400 THEN "yellow"
    ELSE IF 400 <= status_code /\ status_code < 500 THEN "orange1"
    ELSE IF 500 <= status_code /\ status_code < 600 THEN "red"
    ELSE "white"

status_texts ==
    << <<200, <<"O", "K">>>>,
       <<201, <<"C", "r", "e", "a", "t", "e", "d">>>>,
       <<204, <<"N", "o", " ", "C", "o", "n", "t", "e", "n", "t">>>>,
       <<301, <<"M", "o", "v", "e", "d", " ", "P", "e", "r", "m", "a", "n", "e", "n", "t", "l", "y">>>>,
       <<302, <<"F", "o", "u", "n", "d">>>>,
       <<400, <<"B", "a", "d", " ", "R", "e", "q", "u", "e", "s", "t">>>>,
       <<401, <<"U", "n", "a", "u", "t", "h", "o", "r", "i", "z", "e", "d">>>>,
       <<403, <<"F", "o", "r", "b", "i", "d", "d", "e", "n">>>>,
       <<404, <<"N", "o", "t", " ", "F", "o", "u", "n", "d">>>>,
       <<405, <<"M", "e", "t", "h", "o", "d", " ", "N", "o", "t", " ", "A", "l", "l", "o", "w", "e", "d">>>>,
       <<500, <<"I", "n", "t", "e", "r", "n", "a", "l", " ", "S", "e", "r", "v", "e", "r", " ", "E", "r", "r", "o", "r">>>>,
       <<502, <<"B", "a", "d", " ", "G", "a", "t", "e", "w", "a", "y">>>>,
       <<503, <<"S", "e", "r", "v", "i", "c", "e", " ", "U", "n", "a", "v", "a", "i", "l", "a", "b", "l", "e">>>> >>

\* _get_status_text
StatusText(status_code) == DictGet(status_texts, status_code, <<>>)

\* f"{elapsed_time * 1000:.0f}": whole milliseconds, a tie going to the even one
Millis(elapsed_us) ==
    LET q == elapsed_us \div 1000
        r == elapsed_us % 1000
    IN  IF r > 500 \/ (r = 500 /\ q % 2 = 1) THEN q + 1 ELSE q

\* the header names format_response lets through
shown_headers ==
    << <<"c", "o", "n", "t", "e", "n", "t", "-", "t", "y", "p", "e">>,
       <<"c", "o", "n", "t", "e", "n", "t", "-", "l", "e", "n", "g", "t", "h">>,
       <<"s", "e", "r", "v", "e", "r">>,
       <<"d", "a", "t", "e">>,
       <<"c", "a", "c", "h", "e", "-", "c", "o", "n", "t", "r", "o", "l">>,
       <<"x", "-", "r", "a", "t", "e", "l", "i", "m", "i", "t", "-", "r", "e", "m", "a", "i", "n", "i", "n", "g">> >>

\* a mutant of ShownHeader: the name is compared as it came
ShownHeaderExact(key) == InList(key, shown_headers)

\* the test of the header loop:  key.lower() in [...]
ShownHeader(key) == InList(StrLower(key), shown_headers)

\* the rows added to headers_table, in the order of response.headers.items()
HeaderRows(headers) == SelectSeq(headers, LAMBDA h : ShownHeader(h[1]))

\* the size printed in the panel and in the footnotes: len(response.body)
BodySize(body) == Len(body)

TypeJson == <<"a", "p", "p", "l", "i", "c", "a", "t", "i", "o", "n", "/", "j", "s", "o", "n">>
TypeHtml == <<"t", "e", "x", "t", "/", "h", "t", "m", "l">>
TypeAppXml == <<"a", "p", "p", "l", "i", "c", "a", "t", "i", "o", "n", "/", "x", "m", "l">>
TypeTextXml == <<"t", "e", "x", "t", "/", "x", "m", "l">>

\* a mutant of Branch: HTML is tested before JSON
BranchHtmlFirst(content_type) ==
    IF Contains(content_type, TypeHtml) THEN "html"
    ELSE IF Contains(content_type, TypeJson) THEN "json"
    ELSE IF Contains(content_type, TypeAppXml) \/ Contains(content_type, TypeTextXml)
         THEN "xml"
    ELSE "plain"

\* the if/elif chain of _format_body
Branch(content_type) ==
    IF Contains(content_type, TypeJson) THEN "json"
    ELSE IF Contains(content_type, TypeHtml) THEN "html"
    ELSE IF Contains(content_type, TypeAppXml) \/ Contains(content_type, TypeTextXml)
         THEN "xml"
    ELSE "plain"

\* the footnotes
HtmlNote(n) ==
    <<"(", "H", "T", "M", "L", " ", "r", "e", "s", "p", "o", "n", "s", "e", " ", "t", "r", "u", "n", "c", "a", "t", "e", "d", ",", " ">>
    \o IntStr(n) \o <<" ", "b", "y", "t", "e", "s", " ", "t", "o", "t", "a", "l", ")">>
XmlNote(n) ==
    <<"(", "X", "M", "L", " ", "t", "r", "u", "n", "c", "a", "t", "e", "d", ",", " ">>
    \o IntStr(n) \o <<" ", "b", "y", "t", "e", "s", " ", "t", "o", "t", "a", "l", ")">>
PlainNote(n) ==
    <<".", ".", ".", " ", "(">>
    \o IntStr(n) \o <<" ", "b", "y", "t", "e", "s", " ", "t", "o", "t", "a", "l", ")">>

\* a mutant of JsonBody: the JSONDecodeError is not caught
JsonBodyUncaught(body) ==
    LET r == JsonLoads(body)
    IN  IF r.ok THEN <<Ev("syntax_json", JsonDumps(r.v, 0), 0, <<>>)>>
        ELSE <<Ev("raise", <<>>, 0, <<>>)>>

\* the JSON branch: pretty-print, or print the body as it is on JSONDecodeError
JsonBody(body) ==
    LET r == JsonLoads(body)
    IN  IF r.ok THEN <<Ev("syntax_json", JsonDumps(r.v, 0), 0, <<>>)>>
        ELSE <<Ev("text", body, 0, <<>>)>>

\* a mutant of HtmlBody: the "..." line is added only when lines were cut
HtmlBodyCutOnly(body) ==
    LET all == SplitLines(body)
        lines == Prefix(all, HtmlLines)
        preview == JoinLines(lines)
    IN  << Ev("syntax_html",
              IF Len(all) > HtmlLines THEN preview \o <<"\n", ".", ".", ".">> ELSE preview,
              0, <<>>),
           Ev("dim", HtmlNote(BodySize(body)), BodySize(body), <<>>) >>

\* the HTML branch
HtmlBody(body) ==
    LET lines == Prefix(SplitLines(body), HtmlLines)
        preview == JoinLines(lines)
    IN  << Ev("syntax_html",
              IF Len(lines) >= HtmlLines THEN preview \o <<"\n", ".", ".", ".">> ELSE preview,
              0, <<>>),
           Ev("dim", HtmlNote(BodySize(body)), BodySize(body), <<>>) >>

\* the XML branch
XmlBody(body) ==
    <<Ev("syntax_xml", Prefix(body, XmlChars), 0, <<>>)>>
    \o (IF Len(body) > XmlChars
        THEN <<Ev("dim", XmlNote(BodySize(body)), BodySize(body), <<>>)>>
        ELSE <<>>)

\* a mutant of PlainBody: the comparison is >= instead of >
PlainBodyOffByOne(body) ==
    IF Len(body) >= PlainChars
    THEN << Ev("text", Prefix(body, PlainChars), 0, <<>>),
            Ev("dim", PlainNote(BodySize(body)), BodySize(body), <<>>) >>
    ELSE <<Ev("text", body, 0, <<>>)>>

\* the plain-text branch
PlainBody(body) ==
    IF Len(body) > PlainChars
    THEN << Ev("text", Prefix(body, PlainChars), 0, <<>>),
            Ev("dim", PlainNote(BodySize(body)), BodySize(body), <<>>) >>
    ELSE <<Ev("text", body, 0, <<>>)>>

ContentTypeKey == <<"c", "o", "n", "t", "e", "n", "t", "-", "t", "y", "p", "e">>

\* ResponseFormatter._format_body: what it prints
FormatBody(resp) ==
    LET content_type == DictGet(resp.headers, ContentTypeKey, <<>>)
        b == Branch(content_type)
    IN  IF b = "json" THEN JsonBody(resp.body)
        ELSE IF b = "html" THEN HtmlBody(resp.body)
        ELSE IF b = "xml" THEN XmlBody(resp.body)
        ELSE PlainBody(resp.body)

\* the panel: title, border style, and the Status / Time / Size lines
Panel(resp) ==
    [Ev("panel",
       <<"R", "e", "s", "p", "o", "n", "s", "e", " ", "-", " ">>
           \o resp.request.method \o <<" ">> \o resp.request.url,
       BodySize(resp.body),
       << << <<"S", "t", "a", "t", "u", "s">>,
             IntStr(resp.status_code) \o <<" ">> \o StatusText(resp.status_code) >>,
          << <<"T", "i", "m", "e">>, IntStr(Millis(resp.elapsed_us)) \o <<"m", "s">> >>,
          << <<"S", "i", "z", "e">>,
             IntStr(BodySize(resp.body)) \o <<" ", "b", "y", "t", "e", "s">> >> >>)
     EXCEPT !.style = StatusColor(resp.status_code)]

\* ResponseFormatter.format_response: what it prints
FormatResponse(resp, show_headers) ==
    << Ev("blank", <<>>, 0, <<>>), Panel(resp) >>
    \o (IF show_headers /\ resp.headers # <<>>
        THEN << Ev("title", <<"H", "e", "a", "d", "e", "r", "s", ":">>, 0, <<>>),
                Ev("table", <<>>, 0, HeaderRows(resp.headers)) >>
        ELSE <<>>)
    \o << Ev("title", <<"B", "o", "d", "y", ":">>, 0, <<>>) >>
    \o FormatBody(resp)
    \o << Ev("blank", <<>>, 0, <<>>) >>

\* print_error(message), print_info(message)
PrintError(message) == Ev("error", message, 0, <<>>)
PrintInfo(message) == Ev("info", message, 0, <<>>)

----------------------------------------------------------------------------
(* core/http_client.py *)

\* f"{elapsed_time:.2f}": seconds with two decimals
Fmt2(elapsed_us) ==
    LET q == elapsed_us \div 10000
        r == elapsed_us % 10000
        c == IF r > 5000 \/ (r = 5000 /\ q % 2 = 1) THEN q + 1 ELSE q
    IN  Digits(c \div 100) \o <<".">> \o Digits((c % 100) \div 10) \o Digits(c % 10)

\* x or default, for an Optional value whose falsy content is `empty`
OrElse(x, empty, default) == IF x.some /\ x.v # empty THEN x.v ELSE default

\* HttpClient.request up to the transport call: the HttpRequest is built (ok =
\* FALSE: its ValueError leaves request), and call is what client.request of
\* httpx is given
ClientCall(self_timeout, m, url, headers, body, timeout) ==
    LET r == HttpRequest(m, url, OrElse(headers, <<>>, <<>>), body,
                         OrElse(timeout, 0, self_timeout))
    IN  [ok |-> r.ok, req |-> r.req,
         call |-> [method |-> r.req.method, url |-> r.req.url,
                   headers |-> r.req.headers,
                   content |-> IF body.some /\ body.v # <<>> THEN Some(body.v) ELSE None,
                   timeout |-> r.req.timeout]]

\* the message of the httpx.HTTPError raised for httpx.TimeoutException
TimeoutMessage(elapsed_us) ==
    <<"R", "e", "q", "u", "e", "s", "t", " ", "t", "i", "m", "e", "o", "u", "t", " ", "d", "e", "s", "p", "u", "U+00E9", "s", " ", "d", "e", " ">>
    \o Fmt2(elapsed_us) \o <<"s">>

\* the message of the httpx.HTTPError raised for httpx.ConnectError
ConnectMessage(url) ==
    <<"N", "o", " ", "s", "e", " ", "p", "u", "d", "o", " ", "c", "o", "n", "e", "c", "t", "a", "r", " ", "a", " ">> \o url

\* what leaves HttpClient.request when the transport call raises: the two
\* except clauses, and any other httpx.HTTPError as it is (cause is its text)
ClientRaises(kind, url, elapsed_us, cause) ==
    [type |-> "HTTPError",
     msg |-> IF kind = "timeout" THEN TimeoutMessage(elapsed_us)
             ELSE IF kind = "connect" THEN ConnectMessage(url)
             ELSE cause]

NoExc == [type |-> "", msg |-> <<>>]

----------------------------------------------------------------------------
(* commands/request.py *)

HeaderMessage(h) ==
    <<"H", "e", "a", "d", "e", "r", " ", "i", "n", "v", "U+00E1", "l", "i", "d", "o", ":", " ", "'">>
    \o h \o <<"'", ".", " ", "F", "o", "r", "m", "a", "t", "o", " ", "e", "s", "p", "e", "r", "a", "d", "o", ":", " ", "'", "K", "e", "y", ":", " ", "V", "a", "l", "u", "e", "'">>

\* the loop of _parse_headers from entry i on, parsed being the dict so far;
\* ok = FALSE is click.Abort(), bad the entry that was reported
RECURSIVE ParseFrom(_, _, _)
ParseFrom(headers, i, parsed) ==
    IF i > Len(headers) THEN [ok |-> TRUE, parsed |-> parsed, bad |-> <<>>]
    ELSE IF ~Contains(headers[i], <<":">>)
         THEN [ok |-> FALSE, parsed |-> parsed, bad |-> headers[i]]
    ELSE LET c == FirstIndex(headers[i], ":")
             key == SubSeq(headers[i], 1, c - 1)
             value == SubSeq(headers[i], c + 1, Len(headers[i]))
         IN  ParseFrom(headers, i + 1, DictSet(parsed, StrStrip(key), StrStrip(value)))

\* a mutant of ParseHeaders: only the first entry is checked for its colon, a
\* later entry without one is skipped
ParseHeadersFirstOnly(headers) ==
    IF headers # <<>> /\ ~Contains(headers[1], <<":">>)
    THEN [ok |-> FALSE, parsed |-> <<>>, bad |-> headers[1]]
    ELSE ParseFrom(SelectSeq(headers, LAMBDA h : Contains(h, <<":">>)), 1, <<>>)

\* _parse_headers(headers)
ParseHeaders(headers) == ParseFrom(headers, 1, <<>>)

\* a mutant of OnHTTPError: the failed call is made once more and the failure
\* goes unreported
OnHTTPErrorRetry(console, calls, e) ==
    IF Len(calls) < 2
    THEN [pc |-> "in_flight", out |-> console, sent |-> Append(calls, calls[1]),
          exc |-> NoExc]
    ELSE [pc |-> "aborted", out |-> Append(console, PrintError(e.msg)), sent |-> calls,
          exc |-> [type |-> "Abort", msg |-> <<>>]]

\* the except clause of a command: the error is printed, click.Abort() raised
OnHTTPError(console, calls, e) ==
    [pc |-> "aborted", out |-> Append(console, PrintError(e.msg)), sent |-> calls,
     exc |-> [type |-> "Abort", msg |-> <<>>]]

\* the rest of the try block of a command once client.<method>() has returned
OnResponse(console, resp, show_headers) ==
    Append(console,
           PrintInfo(<<"R", "e", "q", "u", "e", "s", "t", " ", "c", "o", "m", "p", "l", "e", "t", "e", "d", " ", "i", "n", " ">>
                     \o IntStr(Millis(resp.elapsed_us)) \o <<"m", "s">>))
    \o FormatResponse(resp, show_headers)

----------------------------------------------------------------------------
(* Inputs *)

Url == <<"h", "t", "t", "p", ":", "/", "/", "h", "/", "a">>

\* --header values: well-formed ones, and ones without a colon
HeaderStrings ==
    { <<"A", ":", " ", "b">>, <<"A", ":", "c">>, <<" ", "K", " ", ":", " ", "v", " ">>,
      <<"B", ":">>, <<"X", "-", "I", "d">>, <<>> }
HeaderTuples == UNION {[1..k -> HeaderStrings] : k \in 0..MaxHeaders}

\* --data
DataValues == {None, Some(<<>>), Some(<<"h", "i">>)}

\* --timeout
TimeoutValues == {5, 30}

Capitalize(s) == [i \in 1..Len(s) |-> IF i = 1 THEN UpperChar(s[i]) ELSE LowerChar(s[i])]

\* method arguments of HttpClient.request: the seven methods in three
\* spellings, and words that are no method
MethodArgs ==
    {valid_methods[i] : i \in 1..Len(valid_methods)}
    \cup {StrLower(valid_methods[i]) : i \in 1..Len(valid_methods)}
    \cup {Capitalize(valid_methods[i]) : i \in 1..Len(valid_methods)}
    \cup { <<"p", "U", "t">>, <<"t", "r", "a", "c", "e">>,
           <<"C", "O", "N", "N", "E", "C", "T">>, <<"g", "e", "t", "s">>,
           <<"G", "E">>, <<" ", "G", "E", "T">>, <<>> }

\* what the server may answer in a command's run: <<status, headers, text>>
ServerAnswers ==
    { <<200, << <<ContentTypeKey, TypeJson>>,
                <<<<"s", "e", "r", "v", "e", "r">>, <<"n", "g", "i", "n", "x">>>> >>,
        <<"{", "\"", "a", "\"", ":", "1", "}">> >>,
      <<404, << <<ContentTypeKey, TypeJson>> >>, <<"n", "o", "p", "e">> >>,
      <<500, << <<ContentTypeKey, TypeHtml>> >>, <<"<", "p", ">", "\n", "x">> >>,
      <<204, <<>>, <<>> >> }

\* elapsed times, in microseconds
ElapsedValues == {499, 1500, 123000}
TimeoutElapsed == {5004999, 30015000}

\* texts of other transport failures (httpx.ReadError, ...)
OtherCauses == { <<"c", "o", "n", "n", "e", "c", "t", "i", "o", "n", " ", "r", "e", "s", "e", "t">> }

\* bodies that are, or nearly are, JSON documents, and short texts
SmallBodies ==
    { <<"{", "\"", "a", "\"", ":", "1", "}">>,
      <<"[", "1", ",", "2", "]">>,
      <<"{", "\"", "a", "\"", ":", "[", "1", ",", "{", "\"", "b", "\"", ":", "n", "u", "l", "l", "}", "]", ",", "\"", "c", "\"", ":", "\"", "x", "\"", "}">>,
      <<"{", "\"", "a", "\"", ":", "1">>,
      <<"n", "o", "p", "e">>,
      <<>>,
      <<"[", "1", ",", "]">>,
      <<"\"", "U+00E9", "\"">>,
      <<" ", "[", " ", "]", " ">>,
      <<"0", "1">>,
      <<"-", "0">>,
      <<"[", "1", "]", " ", "x">>,
      <<"{", "\"", "a", "\"", ":", "1", ",", "\"", "b", "\"", ":", "2", ",", "\"", "a", "\"", ":", "3", "}">>,
      <<"{", "\"", "e", "r", "r", "o", "r", "\"", ":", "\"", "n", "o", "t", " ", "f", "o", "u", "n", "d", "\"", "}">>,
      <<"[", "/", "]">>,
      <<"<", "p", ">", "U+00E9", "U+20AC", "<", "/", "p", ">">> }

\* a body of k lines, line j being the digits of j; nl: it ends with a newline
RECURSIVE NumberedLines(_)
NumberedLines(k) ==
    IF k = 0 THEN <<>>
    ELSE IF k = 1 THEN Digits(1)
    ELSE NumberedLines(k - 1) \o <<"\n">> \o Digits(k)

\* bodies of about HtmlLines lines
LineBodies ==
    {NumberedLines(k) : k \in (HtmlLines - 1 - Slack)..(HtmlLines + Slack)}
    \cup {NumberedLines(k) \o <<"\n">> : k \in (HtmlLines - 1 - Slack)..(HtmlLines - 1)}

\* a body of n characters: c repeated, and a final z
Padded(c, n) == [i \in 1..n |-> IF i = n THEN "z" ELSE c]

\* bodies of about XmlChars and about PlainChars characters
LongBodies ==
    {Padded(c, n) : c \in {"a", "U+00E9"},
                    n \in (XmlChars - Slack)..(XmlChars + Slack)
                          \cup (PlainChars - Slack)..(PlainChars + Slack)}

Bodies == SmallBodies \cup LineBodies \cup LongBodies

\* values of the content-type header
ContentTypes ==
    { TypeJson,
      TypeJson \o <<";", " ", "c", "h", "a", "r", "s", "e", "t", "=", "u", "t", "f", "-", "8">>,
      <<"A", "p", "p", "l", "i", "c", "a", "t", "i", "o", "n", "/", "J", "S", "O", "N">>,
      TypeHtml,
      <<"T", "E", "X", "T", "/", "H", "T", "M", "L", ";", " ", "c", "h", "a", "r", "s", "e", "t", "=", "U", "T", "F", "-", "8">>,
      TypeAppXml,
      TypeTextXml,
      <<"T", "e", "x", "t", "/", "X", "m", "l">>,
      <<"t", "e", "x", "t", "/", "p", "l", "a", "i", "n">>,
      TypeHtml \o <<",", " ">> \o TypeJson,
      TypeTextXml \o <<";">> \o TypeHtml,
      TypeAppXml \o <<",">> \o TypeJson,
      <<>> }

\* other response headers
ExtraHeaders ==
    { << <<"S", "e", "r", "v", "e", "r">>, <<"n", "g", "i", "n", "x">> >>,
      << <<"x", "-", "s", "e", "c", "r", "e", "t">>, <<"s">> >>,
      << <<"X", "-", "R", "a", "t", "e", "L", "i", "m", "i", "t", "-", "R", "e", "m", "a", "i", "n", "i", "n", "g">>, <<"9">> >> }

\* the extra headers in some order, each at most once
ExtraSeqs ==
    {x \in UNION {[1..k -> ExtraHeaders] : k \in 0..MaxExtra} :
        \A i, j \in 1..Len(x) : i # j => x[i] # x[j]}

\* response header dicts: no content-type, or one before or after the others
HeaderDicts ==
    ExtraSeqs
    \cup {<< <<ContentTypeKey, t>> >> \o x : t \in ContentTypes, x \in ExtraSeqs}
    \cup {x \o << <<ContentTypeKey, t>> >> : t \in ContentTypes, x \in ExtraSeqs}

\* <<status_code, elapsed time in microseconds>>
StatusCases == { <<200, 123000>>, <<404, 2500>>, <<599, 1500>> }

\* the request a rendered response answers
SomeRequest == HttpRequest(<<"G", "E", "T">>, Url, <<>>, None, 30).req

----------------------------------------------------------------------------
(* The invocation *)

Init ==
    /\ pc = "start"
    /\ cmd = ""
    /\ header = <<>>
    /\ no_headers = FALSE
    /\ method = <<>>
    /\ request = None
    /\ sent = <<>>
    /\ outcome = "none"
    /\ response = None
    /\ exc = NoExc
    /\ out = <<>>

\* the body of get_command / post_command / put_command / delete_command up
\* to the transport call: _parse_headers, then client.<name>(url, ...)
Command(name, m, hdr, data, timeout, nh) ==
    /\ pc = "start"
    /\ cmd' = name
    /\ header' = hdr
    /\ no_headers' = nh
    /\ method' = m
    /\ LET p == ParseHeaders(hdr)
       IN  IF ~p.ok
           THEN /\ out' = Append(out, PrintError(HeaderMessage(p.bad)))
                /\ exc' = [type |-> "Abort", msg |-> <<>>]
                /\ pc' = "aborted"
                /\ UNCHANGED <<request, sent>>
           ELSE LET c == ClientCall(timeout, m, Url, Some(p.parsed), data, NoneInt)
                IN  IF c.ok
                    THEN /\ request' = Some(c.req)
                         /\ sent' = Append(sent, c.call)
                         /\ pc' = "in_flight"
                         /\ UNCHANGED <<exc, out>>
                    ELSE /\ exc' = [type |-> "ValueError", msg |-> c.req.method]
                         /\ pc' = "raised"
                         /\ UNCHANGED <<request, sent, out>>
    /\ UNCHANGED <<outcome, response>>

get_command ==
    \E hdr \in HeaderTuples, t \in TimeoutValues, nh \in BOOLEAN :
        Command("get", <<"G", "E", "T">>, hdr, None, t, nh)

post_command ==
    \E hdr \in HeaderTuples, d \in DataValues, t \in TimeoutValues, nh \in BOOLEAN :
        Command("post", <<"P", "O", "S", "T">>, hdr, d, t, nh)

put_command ==
    \E hdr \in HeaderTuples, d \in DataValues, t \in TimeoutValues, nh \in BOOLEAN :
        Command("put", <<"P", "U", "T">>, hdr, d, t, nh)

delete_command ==
    \E hdr \in HeaderTuples, t \in TimeoutValues, nh \in BOOLEAN :
        Command("delete", <<"D", "E", "L", "E", "T", "E">>, hdr, None, t, nh)

\* HttpClient.request called on its own, with any method argument
client_request ==
    /\ pc = "start"
    /\ \E m \in MethodArgs, h \in {None, Some(<<>>), Some(<< <<<<"A">>, <<"b">>>> >>)},
          d \in DataValues, t \in {NoneInt, Some(0), Some(5)} :
          LET c == ClientCall(30, m, Url, h, d, t)
          IN  /\ method' = m
              /\ IF c.ok
                 THEN /\ request' = Some(c.req)
                      /\ sent' = Append(sent, c.call)
                      /\ pc' = "in_flight"
                      /\ exc' = exc
                 ELSE /\ exc' = [type |-> "ValueError", msg |-> c.req.method]
                      /\ pc' = "raised"
                      /\ UNCHANGED <<request, sent>>
    /\ cmd' = "client"
    /\ UNCHANGED <<header, no_headers, outcome, response, out>>

\* the transport call returns: HttpClient.request builds the HttpResponse and
\* returns it; a command prints it
transport_returns ==
    /\ pc = "in_flight"
    /\ \E a \in ServerAnswers, e \in ElapsedValues :
          LET resp == HttpResponse(a[1], a[2], a[3], e, request.v)
          IN  /\ response' = Some(resp)
              /\ IF cmd = "client"
                 THEN /\ pc' = "returned"
                      /\ out' = out
                 ELSE /\ pc' = "done"
                      /\ out' = OnResponse(out, resp, ~no_headers)
    /\ outcome' = "response"
    /\ UNCHANGED <<cmd, header, no_headers, method, request, sent, exc>>

\* the transport call raises kind: HttpClient.request raises httpx.HTTPError; a
\* command prints it and aborts
Fails(kind, elapsed_us, cause) ==
    /\ pc = "in_flight"
    /\ outcome' = kind
    /\ LET e == ClientRaises(kind, request.v.url, elapsed_us, cause)
       IN  IF cmd = "client"
           THEN /\ pc' = "raised"
                /\ exc' = e
                /\ UNCHANGED <<out, sent>>
           ELSE LET h == OnHTTPError(out, sent, e)
                IN  /\ pc' = h.pc
                    /\ out' = h.out
                    /\ sent' = h.sent
                    /\ exc' = h.exc
    /\ UNCHANGED <<cmd, header, no_headers, method, request, response>>

transport_timeout == \E e \in TimeoutElapsed : Fails("timeout", e, <<>>)

transport_connect_error == Fails("connect", 0, <<>>)

transport_other_error == \E c \in OtherCauses : Fails("other", 0, c)

\* ResponseFormatter.format_response(response, show_headers=not no_headers)
format_response ==
    /\ pc = "called"
    /\ cmd = "format_response"
    /\ out' = out \o FormatResponse(response.v, ~no_headers)
    /\ pc' = "done"
    /\ UNCHANGED <<cmd, header, no_headers, method, request, sent, outcome, response, exc>>

Next ==
    \/ get_command
    \/ post_command
    \/ put_command
    \/ delete_command
    \/ client_request
    \/ transport_returns
    \/ transport_timeout
    \/ transport_connect_error
    \/ transport_other_error

Spec == Init /\ [][Next]_vars

\* the renderer alone: format_response is about to be called with any response
InitRender ==
    /\ pc = "called"
    /\ cmd = "format_response"
    /\ \E sc \in StatusCases, h \in HeaderDicts, b \in Bodies :
          response = Some(HttpResponse(sc[1], h, b, sc[2], SomeRequest))
    /\ no_headers \in BOOLEAN
    /\ header = <<>>
    /\ method = <<>>
    /\ request = None
    /\ sent = <<>>
    /\ outcome = "none"
    /\ exc = NoExc
    /\ out = <<>>

NextRender == format_response

SpecRender == InitRender /\ [][NextRender]_vars

----------------------------------------------------------------------------
(* Properties *)

Commands == {"get", "post", "put", "delete"}

NoColon(h) == \A i \in 1..Len(h) : h[i] # ":"
Malformed == {i \in 1..Len(header) : NoColon(header[i])}

\* the number of bytes of the UTF-8 encoding of a character, and of a string
Utf8Width(c) ==
    IF c \in {"U+00E9", "U+00E1"} THEN 2 ELSE IF c = "U+20AC" THEN 3 ELSE 1
Utf8Len(s) ==
    Len(s) + Cardinality({i \in 1..Len(s) : Utf8Width(s[i]) >= 2})
           + Cardinality({i \in 1..Len(s) : Utf8Width(s[i]) >= 3})

Rendered == pc = "done" /\ cmd = "format_response"

\* what _format_body printed: the events between the "Body:" title and the
\* closing blank line
BodyEvents ==
    LET i == CHOOSE j \in 1..Len(out) :
                 out[j].kind = "title" /\ out[j].text = <<"B", "o", "d", "y", ":">>
    IN  SubSeq(out, i + 1, Len(out) - 1)

\* the value dispatched on: the content-type header, "" when absent
ContentType ==
    IF \E i \in 1..Len(response.v.headers) : response.v.headers[i][1] = ContentTypeKey
    THEN (CHOOSE h \in {response.v.headers[i] : i \in 1..Len(response.v.headers)} :
              h[1] = ContentTypeKey)[2]
    ELSE <<>>

Body == response.v.body
Footnotes == {i \in 1..Len(out) : out[i].kind = "dim"}
PanelAt == CHOOSE i \in 1..Len(out) : out[i].kind = "panel"
NumLines(s) == Cardinality({i \in 1..Len(s) : s[i] = "\n"}) + 1
Ellipsis == <<"\n", ".", ".", ".">>
EndsWith(s, p) == Len(s) >= Len(p) /\ SubSeq(s, Len(s) - Len(p) + 1, Len(s)) = p

\* the category an ordered, case-sensitive search of v for the patterns gives
FirstMatch(v) ==
    IF Contains(v, TypeJson) THEN "json"
    ELSE IF Contains(v, TypeHtml) THEN "html"
    ELSE IF Contains(v, TypeAppXml) \/ Contains(v, TypeTextXml) THEN "xml"
    ELSE "plain"

\* what rendering body b as category c prints
RenderAs(c, b) ==
    IF c = "json" THEN JsonBody(b)
    ELSE IF c = "html" THEN HtmlBody(b)
    ELSE IF c = "xml" THEN XmlBody(b)
    ELSE PlainBody(b)

\* C1: once a command was given a --header value without a colon, whatever its
\* place among the values, the error has been printed, the command has
\* aborted, and no transport call was or will be made.
C1_MalformedHeaderAborts ==
    (cmd \in Commands /\ Malformed # {}) =>
        /\ sent = <<>>
        /\ pc = "aborted"
        /\ exc.type = "Abort"
        /\ outcome = "none"
        /\ LET first == CHOOSE i \in Malformed : \A j \in Malformed : i <= j
           IN  out = <<PrintError(HeaderMessage(header[first]))>>

\* C1 witness: the second of two --header values has no colon, the first has
C1_Witness ==
    /\ cmd \in Commands
    /\ Len(header) = 2
    /\ Malformed = {2}
    /\ pc = "aborted"
    /\ sent = <<>>

\* C2: a command makes at most one transport call; when it fails, the cause
\* is printed, the command aborts, the call is not repeated and
\* format_response has printed nothing.
C2_OneCallNoRetry ==
    cmd \in Commands =>
        /\ Len(sent) <= 1
        /\ outcome \in {"timeout", "connect", "other"} =>
              /\ Len(sent) = 1
              /\ pc = "aborted"
              /\ exc.type = "Abort"
              /\ Len(out) = 1
              /\ out[1].kind = "error"
              /\ \/ outcome = "timeout"
                    /\ \E e \in TimeoutElapsed : out[1].text = TimeoutMessage(e)
                 \/ outcome = "connect" /\ out[1].text = ConnectMessage(Url)
                 \/ outcome = "other" /\ out[1].text \in OtherCauses

\* C2 witness: the transport call of a get command timed out
C2_Witness ==
    /\ cmd = "get"
    /\ outcome = "timeout"
    /\ pc = "aborted"
    /\ Len(sent) = 1

\* C3 (as claimed): the size in the summary and in every footnote is the
\* number of bytes of the UTF-8 encoding of the whole body.
C3_SizeIsUtf8Bytes ==
    Rendered =>
        /\ out[PanelAt].n = Utf8Len(Body)
        /\ \A i \in Footnotes : out[i].n = Utf8Len(Body)

\* C4 (as claimed): changing only the letter case of the content-type value
\* leaves the rendering of the body the same, so what was printed is what the
\* lower-cased value prints.
C4_CaseInsensitiveDispatch ==
    Rendered => BodyEvents = RenderAs(FirstMatch(StrLower(ContentType)), Body)

\* C5: the body is rendered by exactly one branch, the first of JSON, HTML,
\* XML, plain text whose pattern the content-type value contains.
C5_FirstMatchWins ==
    Rendered =>
        /\ BodyEvents = RenderAs(FirstMatch(ContentType), Body)
        /\ Cardinality({i \in 1..Len(BodyEvents) :
               BodyEvents[i].kind \in {"syntax_json", "syntax_html", "syntax_xml", "text"}}) = 1

\* C5 witness: the value names HTML first and JSON second, and the body was
\* pretty-printed as JSON
C5_Witness ==
    /\ Rendered
    /\ Contains(ContentType, TypeJson)
    /\ Contains(ContentType, TypeHtml)
    /\ BodyEvents[1].kind = "syntax_json"

\* C6: in the plain-text branch a body of at most 1000 characters is printed
\* whole with no footnote, a longer one as its first 1000 characters and a
\* footnote with the total size.
C6_PlainTruncation ==
    (Rendered /\ FirstMatch(ContentType) = "plain") =>
        IF Len(Body) <= 1000
        THEN /\ Len(BodyEvents) = 1
             /\ BodyEvents[1].kind = "text"
             /\ BodyEvents[1].text = Body
        ELSE /\ Len(BodyEvents) = 2
             /\ BodyEvents[1].kind = "text"
             /\ BodyEvents[1].text = SubSeq(Body, 1, 1000)
             /\ BodyEvents[2].kind = "dim"
             /\ BodyEvents[2].text = PlainNote(BodyEvents[2].n)
             /\ (Utf8Len(Body) = Len(Body) => BodyEvents[2].n = Len(Body))

\* C6 witness: a plain-text body of 1001 characters was cut to 1000
C6_Witness ==
    /\ Rendered
    /\ FirstMatch(ContentType) = "plain"
    /\ Len(Body) = 1001
    /\ Len(BodyEvents[1].text) = 1000
    /\ Len(BodyEvents) = 2

\* C7: in the HTML branch the preview is the first 10 lines of the body (all
\* of it when it has fewer), followed by a "..." line exactly when the body
\* has 10 lines or more; the size footnote follows in every case.
C7_HtmlPreview ==
    (Rendered /\ FirstMatch(ContentType) = "html") =>
        /\ Len(BodyEvents) = 2
        /\ BodyEvents[1].kind = "syntax_html"
        /\ BodyEvents[2].kind = "dim"
        /\ BodyEvents[2].text = HtmlNote(BodyEvents[2].n)
        /\ LET shown == BodyEvents[1].text
               many  == NumLines(Body) >= 10
               lines == IF many THEN SubSeq(shown, 1, Len(shown) - Len(Ellipsis))
                        ELSE shown
           IN  /\ many => EndsWith(shown, Ellipsis)
               /\ ~many => shown = Body
               /\ Len(lines) <= Len(Body)
               /\ lines = SubSeq(Body, 1, Len(lines))
               /\ NumLines(lines) = (IF many THEN 10 ELSE NumLines(Body))
               /\ (Len(lines) < Len(Body) => Body[Len(lines) + 1] = "\n")

\* C7 witness: an HTML body of exactly 10 lines got the "..." line
C7_Witness ==
    /\ Rendered
    /\ FirstMatch(ContentType) = "html"
    /\ NumLines(Body) = 10
    /\ EndsWith(BodyEvents[1].text, Ellipsis)
    /\ Len(BodyEvents[1].text) = Len(Body) + Len(Ellipsis)

\* C8: the header table is printed exactly when headers are to be shown and
\* there is one; its rows are the response headers whose lower-cased name is
\* on the list, each once, in the order of the response.
C8_HeaderRows ==
    Rendered =>
        LET hs == response.v.headers
            tables == {i \in 1..Len(out) : out[i].kind = "table"}
            listed(h) == \E j \in 1..Len(shown_headers) : StrLower(h[1]) = shown_headers[j]
        IN  IF no_headers \/ hs = <<>>
            THEN tables = {} /\ \A i \in 1..Len(out) : out[i].rows = <<>> \/ out[i].kind = "panel"
            ELSE /\ Cardinality(tables) = 1
                 /\ LET rows == out[CHOOSE i \in tables : TRUE].rows
                    IN  /\ \A i \in 1..Len(hs) :
                               listed(hs[i]) <=> \E r \in 1..Len(rows) : rows[r] = hs[i]
                        /\ \A r \in 1..Len(rows) : listed(rows[r])
                        /\ \A r, q \in 1..Len(rows) :
                               r < q => \E i, j \in 1..Len(hs) :
                                            i < j /\ hs[i] = rows[r] /\ hs[j] = rows[q]

\* C8 witness: of three headers the table shows two, one of them spelled with
\* capitals, and leaves out the one that is not on the list
C8_Witness ==
    /\ Rendered
    /\ ~no_headers
    /\ Len(response.v.headers) = 3
    /\ \E i \in 1..Len(out) :
          /\ out[i].kind = "table"
          /\ Len(out[i].rows) = 2
          /\ \E r \in 1..2 : out[i].rows[r][1] # StrLower(out[i].rows[r][1])

C10_MethodValid ==
    /\ request.some =>
          /\ request.v.method = StrUpper(method)
          /\ InList(request.v.method, valid_methods)
    /\ (pc # "start" /\ cmd # "format_response"
            /\ ~InList(StrUpper(method), valid_methods)) =>
          /\ pc = "raised"
          /\ exc.type = "ValueError"
          /\ ~request.some
          /\ sent = <<>>
    /\ \A i \in 1..Len(sent) : InList(sent[i].method, valid_methods)

\* C10 witness: HttpClient.request was given "get" and sent GET
C10_Witness ==
    /\ cmd = "client"
    /\ method = <<"g", "e", "t">>
    /\ Len(sent) = 1
    /\ sent[1].method = <<"G", "E", "T">>
    /\ request.some

====
